---- MODULE Spec2Model ----
(***************************************************************************)
(* ParallelMemoryBenchmark (pmb): a command-line tool that allocates an    *)
(* array of unsigned integers, fills it from a seeded std::mt19937, sums   *)
(* it, sorts it under a run-time selected execution policy, sums it again  *)
(* and checks that it is sorted, timing every phase with bench().          *)
(*                                                                         *)
(* The model follows the latest revision of the program (main, test,       *)
(* bench, configure).  One behaviour is one process run: the command line  *)
(* is the input, the main thread moves through configure(), the header,    *)
(* the outer bench(report::full, ...) and the six labelled bench() calls   *)
(* of test().  The parallel std::sort is modelled by two worker threads    *)
(* that sort one half of the array each and a merge by the calling thread. *)
(***************************************************************************)
EXTENDS Integers, Sequences, FiniteSets, TLC

(***************************************************************************)
(* Bounds of the model.                                                    *)
(***************************************************************************)
\* Elements the modelled machine can allocate: resize() beyond it throws.
MaxLen == 4
\* Bit width of `unsigned` (and of the std::mt19937 output range).
Width == 3
\* Bit width of std::size_t.
SizeBits == 6
\* Lengths and element values of the two-run and free-input specifications.
MaxPairLen == 3
MaxPairSeed == 1
MaxAnyLen == 3
MaxAnyVal == 4
\* Memory faults injected by the faulty-platform specification.
MaxFaults == 1

Modulus == 2 ^ Width
UnsignedMax == Modulus - 1
SizeMax == (2 ^ SizeBits) - 1
SizeofUnsigned == 4

Min(x, y) == IF x < y THEN x ELSE y

None == -1
Monostate == -2
Seeds == 0 .. UnsignedMax
TooBig == SizeMax \div SizeofUnsigned
LengthArgs == (0 .. MaxLen) \cup {TooBig - 1, TooBig, SizeMax}
Workers == {1, 2}

VARIABLES
    vm,        \* po::variables_map: the parsed command line
    entropy,   \* the value std::random_device returns when it is asked
    pc,        \* position of the main thread
    phase,     \* the bench() call the main thread is in ("Test" = outer)
    params,    \* Parameters returned by configure()
    gen,       \* state of the std::mt19937 engine
    a,         \* std::vector<unsigned> a of test()
    k,         \* position of std::generate in a
    s1,        \* checksum kept from the Hashing phase
    s2,        \* checksum computed in the Rehashing phase
    i,         \* loop variable of the sort repetition loop
    frames,    \* active bench() calls, innermost last
    clock,     \* std::chrono::steady_clock
    out,       \* what was printed to stdout / stderr so far
    exitCode,  \* process exit status, once it has exited
    wst,       \* state of the workers of the parallel sort
    policy,    \* execution policy of the std::sort call in progress / last made
    log,       \* history: bench() events
    a0,        \* history: workload as Generating left it
    aPre,      \* history: workload when the latest sort call started
    genCalls,  \* history: number of invocations of the engine
    faults,    \* history: memory faults injected so far
    run,       \* index of the process run (1 or 2)
    prev       \* results of the first run, once a second one has started

vars == <<vm, entropy, pc, phase, params, gen, a, k, s1, s2, i, frames, clock,
          out, exitCode, wst, policy, log, a0, aPre, genCalls, faults, run, prev>>

(***************************************************************************)
(* Pure parts of the program.                                              *)
(***************************************************************************)

\* A position-dependent digest in place of the plain sum.
RECURSIVE AccumulateHorner(_, _)
AccumulateHorner(s, acc) ==
    IF s = <<>> THEN acc
    ELSE AccumulateHorner(Tail(s), (2 * acc + Head(s)) % Modulus)

\* A sum that stops at the largest unsigned instead of wrapping around.
RECURSIVE AccumulateSaturating(_, _)
AccumulateSaturating(s, acc) ==
    IF s = <<>> THEN acc
    ELSE AccumulateSaturating(Tail(s), Min(acc + Head(s), UnsignedMax))

\* std::accumulate(first, last, init) over unsigned: a left fold, mod 2^Width.
RECURSIVE Accumulate(_, _)
Accumulate(s, acc) ==
    IF s = <<>> THEN acc
    ELSE Accumulate(Tail(s), (acc + Head(s)) % Modulus)

Sum(s) == Accumulate(s, 0)

\* A scan that takes the empty range for unsorted.
IsSortedNonEmpty(s) == Len(s) > 0 /\ \A j \in 1 .. (Len(s) - 1) : ~(s[j + 1] < s[j])

\* std::is_sorted: no element is less than its predecessor.
IsSorted(s) == \A j \in 1 .. (Len(s) - 1) : ~(s[j + 1] < s[j])

\* reserve() in place of resize(): capacity grows, the size does not.
ResizeReserve(v, n) == v

\* std::vector::resize(n): value-initialised (zero) elements are appended.
Resize(v, n) ==
    IF n <= Len(v) THEN SubSeq(v, 1, n)
    ELSE v \o [j \in 1 .. (n - Len(v)) |-> 0]

\* An engine seeded from the seed and the start time display flag.
SeedEngineTimed(p) == (p.seed + (IF p.show_start_time THEN 1 ELSE 0)) % Modulus

\* An engine that is seeded differently when the seed came from the system.
SeedEngineByOrigin(p) ==
    (p.seed + (IF p.seed_origin = "generated by the system" THEN 1 ELSE 0)) % Modulus

\* std::mt19937 {seed}: the engine state is a function of the seed alone.
SeedEngine(p) == p.seed % Modulus

\* One invocation of the engine: a full-period generator over the range of
\* unsigned (the static_assert demands exactly that range).
GenNext(g) == (5 * g + 3) % Modulus

\* An insertion that drops an element equal to one already there.
RECURSIVE InsertSortedUnique(_, _)
InsertSortedUnique(x, s) ==
    IF s = <<>> THEN <<x>>
    ELSE IF x = Head(s) THEN s
    ELSE IF x < Head(s) THEN <<x>> \o s
    ELSE <<Head(s)>> \o InsertSortedUnique(x, Tail(s))

\* An insertion with the comparison the wrong way round.
RECURSIVE InsertSortedDescending(_, _)
InsertSortedDescending(x, s) ==
    IF s = <<>> THEN <<x>>
    ELSE IF Head(s) < x THEN <<x>> \o s
    ELSE <<Head(s)>> \o InsertSortedDescending(x, Tail(s))

\* std::sort(std::execution::seq, ...): ascending insertion sort.
RECURSIVE InsertSorted(_, _)
InsertSorted(x, s) ==
    IF s = <<>> THEN <<x>>
    ELSE IF x < Head(s) THEN <<x>> \o s
    ELSE <<Head(s)>> \o InsertSorted(x, Tail(s))

RECURSIVE StdSort(_)
StdSort(s) ==
    IF s = <<>> THEN <<>>
    ELSE InsertSorted(Head(s), StdSort(Tail(s)))

\* The halves are put back side by side without being merged.
MergeConcat(l, r) == l \o r

\* Merge of the two sorted halves by the thread that called the parallel sort.
RECURSIVE Merge(_, _)
Merge(l, r) ==
    IF l = <<>> THEN r
    ELSE IF r = <<>> THEN l
    ELSE IF r[1] < l[1] THEN <<r[1]>> \o Merge(l, Tail(r))
    ELSE <<l[1]>> \o Merge(Tail(l), r)

\* The half of 1..n that worker w sorts.
Slice(w, n) == IF w = 1 THEN 1 .. (n \div 2) ELSE ((n \div 2) + 1) .. n

\* Adjacent inversions of s inside the index set slice.
Inversions(s, slice) ==
    {j \in slice : (j + 1) \in slice /\ s[j + 1] < s[j]}

SetMin(S) == CHOOSE x \in S : \A y \in S : x <= y

SwapAt(s, j) == [s EXCEPT ![j] = s[j + 1], ![j + 1] = s[j]]

(***************************************************************************)
(* configure(): parse_cmdline_args, extract_length, obtain_seed_info,      *)
(* extract_dynamic_execution_policy, extract_operating_parameters.         *)
(***************************************************************************)
NoParams == [length |-> None, seed |-> None, seed_origin |-> "none",
             mode |-> "none", inplace_reps |-> 0, show_start_time |-> FALSE]

Count(b) == IF b THEN 1 ELSE 0

\* A default of std::execution::seq when no mode flag is given.
ExtractModeDefaultSeq(v) ==
    LET n == Count(v.seq) + Count(v.par) + Count(v.par_unseq) IN
    IF n = 0 THEN "seq"
    ELSE IF n = 1 THEN (IF v.seq THEN "seq"
                        ELSE IF v.par THEN "par"
                        ELSE IF v.par_unseq THEN "par_unseq"
                        ELSE "NOT_REACHED")
    ELSE "die"

\* Several mode flags resolved in favour of the first one tested.
ExtractModeFirstWins(v) ==
    IF v.seq THEN "seq"
    ELSE IF v.par THEN "par"
    ELSE IF v.par_unseq THEN "par_unseq"
    ELSE "par"

\* extract_dynamic_execution_policy: "die" stands for the call of die(),
\* "NOT_REACHED" for the branch marked NOT_REACHED().
ExtractMode(v) ==
    LET n == Count(v.seq) + Count(v.par) + Count(v.par_unseq) IN
    IF n = 0 THEN "par"
    ELSE IF n = 1 THEN (IF v.seq THEN "seq"
                        ELSE IF v.par THEN "par"
                        ELSE IF v.par_unseq THEN "par_unseq"
                        ELSE "NOT_REACHED")
    ELSE "die"

\* A check of the length against SIZE_MAX itself, not against the byte size.
LengthOkNoDivision(len) == ~(len > SizeMax)

\* extract_length: TRUE when the length is accepted.
LengthOk(len) == ~(len >= SizeMax \div SizeofUnsigned)

\* The count of --twice taken for the number of repetitions.
ExtractRepsCount(v) == Count(v.twice)

\* extract_operating_parameters: inplace_reps = (vm.count("twice") ? 2 : 1).
ExtractReps(v) == IF v.twice THEN 2 ELSE 1

\* A --help that is honoured only on an otherwise complete command line.
ParseCmdlineArgsHelpLast(v) ==
    IF v.malformed THEN "die"
    ELSE IF v.help /\ v.length # None
                   /\ Count(v.seq) + Count(v.par) + Count(v.par_unseq) <= 1 THEN "help"
    ELSE "vm"

\* parse_cmdline_args: die on a po::error, print the options and exit on
\* --help, return the variables map otherwise.
ParseCmdlineArgs(v) ==
    IF v.malformed THEN "die"
    ELSE IF v.help THEN "help"
    ELSE "vm"

\* The outcome of configure(): what is printed, whether the process exits,
\* and the Parameters it returns otherwise.
ConfigureOutcome(v, rd) ==
    IF ParseCmdlineArgs(v) = "die" THEN
        [exit |-> "EXIT_FAILURE", text |-> "po::error", params |-> NoParams]
    ELSE IF ParseCmdlineArgs(v) = "help" THEN
        [exit |-> "EXIT_SUCCESS", text |-> "help", params |-> NoParams]
    ELSE IF v.length = None THEN
        [exit |-> "EXIT_FAILURE", text |-> "no length specified", params |-> NoParams]
    ELSE IF ~LengthOk(v.length) THEN
        [exit |-> "EXIT_FAILURE", text |-> "length is too big", params |-> NoParams]
    ELSE IF ExtractMode(v) = "die" THEN
        [exit |-> "EXIT_FAILURE", text |-> "at most one mode", params |-> NoParams]
    ELSE
        [exit |-> "none", text |-> "",
         params |-> [length |-> v.length,
                     seed |-> IF v.seed # None THEN v.seed ELSE rd,
                     seed_origin |-> IF v.seed # None THEN "provided by the user"
                                     ELSE "generated by the system",
                     mode |-> ExtractMode(v),
                     inplace_reps |-> ExtractReps(v),
                     show_start_time |-> v.time]]

(***************************************************************************)
(* bench() and the phases of test().                                       *)
(***************************************************************************)
Phases == <<"Allocating", "Generating", "Hashing", "Sorting", "Rehashing", "Checking">>

\* The label each bench() call of test() prints.
Label(ph) == IF ph = "Allocating" THEN "Allocating/zeroing" ELSE ph

\* The reporter each bench() call is given.
Reporter(ph) ==
    IF ph = "Test" THEN "full"
    ELSE IF ph \in {"Allocating", "Generating", "Sorting"} THEN "compact"
    ELSE "time_only"

Ev(stream, kind, text, val) == [stream |-> stream, kind |-> kind, text |-> text, val |-> val]

\* namespace report: what each reporter prints for a duration dt.
ReportOutput(rep, dt) ==
    IF rep = "full" THEN <<Ev("stdout", "full", "Test completed", dt)>>
    ELSE IF rep = "compact"
    THEN <<Ev("stdout", "compact", "Done.", dt), Ev("stdout", "time_only", "ms", dt)>>
    ELSE <<Ev("stdout", "time_only", "ms", dt)>>

\* A scope guard whose destructor reports, also while an exception unwinds.
UnwindOutputGuard(fr) == ReportOutput(fr.reporter, 0)

\* What leaving a bench() call by an exception prints: bench() reports after
\* the action returned, not from a destructor, so nothing.
UnwindOutput(fr) == <<>>

\* A handler that does not end the line of the pending label.
CatchOutputNoNewline == <<Ev("stderr", "error", "not enough memory", 0)>>

\* main's handler of std::bad_alloc: a newline, then die("not enough memory").
CatchOutput ==
    <<Ev("stdout", "newline", "", 0), Ev("stderr", "error", "not enough memory", 0)>>

\* A repetition loop that tests i >= 0 and so sorts once more.
AfterReportOffByOne(ph, j, reps) ==
    IF ph = "Allocating" THEN [phase |-> "Generating", pc |-> "label", i |-> j]
    ELSE IF ph = "Generating" THEN [phase |-> "Hashing", pc |-> "label", i |-> j]
    ELSE IF ph = "Hashing" THEN
        [phase |-> IF reps >= 0 THEN "Sorting" ELSE "Rehashing", pc |-> "label", i |-> reps]
    ELSE IF ph = "Sorting" THEN
        [phase |-> IF j - 1 >= 0 THEN "Sorting" ELSE "Rehashing", pc |-> "label", i |-> j - 1]
    ELSE IF ph = "Rehashing" THEN [phase |-> "Checking", pc |-> "label", i |-> j]
    ELSE IF ph = "Checking" THEN [phase |-> "Test", pc |-> "tf", i |-> j]
    ELSE [phase |-> "Test", pc |-> "return", i |-> j]

\* An `if` in place of the repetition loop: one sort whatever inplace_reps.
AfterReportNoLoop(ph, j, reps) ==
    IF ph = "Allocating" THEN [phase |-> "Generating", pc |-> "label", i |-> j]
    ELSE IF ph = "Generating" THEN [phase |-> "Hashing", pc |-> "label", i |-> j]
    ELSE IF ph = "Hashing" THEN
        [phase |-> IF reps > 0 THEN "Sorting" ELSE "Rehashing", pc |-> "label", i |-> reps]
    ELSE IF ph = "Sorting" THEN [phase |-> "Rehashing", pc |-> "label", i |-> j - 1]
    ELSE IF ph = "Rehashing" THEN [phase |-> "Checking", pc |-> "label", i |-> j]
    ELSE IF ph = "Checking" THEN [phase |-> "Test", pc |-> "tf", i |-> j]
    ELSE [phase |-> "Test", pc |-> "return", i |-> j]

\* Where test() / main() continue after the bench() call of phase ph has
\* reported; j is the loop variable of the repetition loop.
AfterReport(ph, j, reps) ==
    IF ph = "Allocating" THEN [phase |-> "Generating", pc |-> "label", i |-> j]
    ELSE IF ph = "Generating" THEN [phase |-> "Hashing", pc |-> "label", i |-> j]
    ELSE IF ph = "Hashing" THEN
        [phase |-> IF reps > 0 THEN "Sorting" ELSE "Rehashing", pc |-> "label", i |-> reps]
    ELSE IF ph = "Sorting" THEN
        [phase |-> IF j - 1 > 0 THEN "Sorting" ELSE "Rehashing", pc |-> "label", i |-> j - 1]
    ELSE IF ph = "Rehashing" THEN [phase |-> "Checking", pc |-> "label", i |-> j]
    ELSE IF ph = "Checking" THEN [phase |-> "Test", pc |-> "tf", i |-> j]
    ELSE [phase |-> "Test", pc |-> "return", i |-> j]

LogEv(ev, id, ph) == [ev |-> ev, id |-> id, phase |-> ph, at |-> clock]

Top == frames[Len(frames)]

(***************************************************************************)
(* Initial states: one command line.                                       *)
(***************************************************************************)
VMs ==
    [malformed : BOOLEAN, help : BOOLEAN, length : {None} \cup LengthArgs,
     seed : {None} \cup Seeds, twice : BOOLEAN, time : BOOLEAN,
     seq : BOOLEAN, par : BOOLEAN, par_unseq : BOOLEAN]

NoPrev == [params |-> NoParams, a0 |-> <<>>, a |-> <<>>, s1 |-> None, s2 |-> None,
           out |-> <<>>, exitCode |-> "none"]

Start(v, rd) ==
    /\ vm = v
    /\ entropy = rd
    /\ pc = "configure"
    /\ phase = "Test"
    /\ params = NoParams
    /\ gen = 0
    /\ a = <<>>
    /\ k = 0
    /\ s1 = None
    /\ s2 = None
    /\ i = 0
    /\ frames = <<>>
    /\ clock = 0
    /\ out = <<>>
    /\ exitCode = "none"
    /\ wst = [w \in Workers |-> "idle"]
    /\ policy = "none"
    /\ log = <<>>
    /\ a0 = <<>>
    /\ aPre = <<>>
    /\ genCalls = 0
    /\ faults = 0

Init ==
    /\ run = 1
    /\ prev = NoPrev
    /\ \E v \in VMs, rd \in Seeds :
          /\ v.seed # None => rd = 0
          /\ Start(v, rd)

(***************************************************************************)
(* Actions of the main thread.                                             *)
(***************************************************************************)
Tick == clock' = clock + 1

\* Variables only the second-run bookkeeping and the fault injection change.
Meta == <<vm, entropy, run, prev, faults>>

\* main, line 1: configure(argc, argv).
Configure ==
    /\ pc = "configure"
    /\ LET r == ConfigureOutcome(vm, entropy) IN
          /\ params' = r.params
          /\ exitCode' = r.exit
          /\ pc' = IF r.exit = "none" THEN "header" ELSE "exited"
          /\ out' = IF r.exit = "none" THEN out
                    ELSE IF r.exit = "EXIT_SUCCESS"
                    THEN Append(out, Ev("stdout", "help", r.text, 0))
                    ELSE Append(out, Ev("stderr", "error", r.text, 0))
    /\ Tick
    /\ UNCHANGED <<phase, gen, a, k, s1, s2, i, frames, wst, policy, log, a0, aPre,
                   genCalls>>
    /\ UNCHANGED Meta

\* main, lines 2-3: print the parameters, construct the engine from the seed.
Header ==
    /\ pc = "header"
    /\ out' = out \o (IF params.show_start_time
                      THEN <<Ev("stdout", "header", "Current time", 0)>> ELSE <<>>)
                  \o <<Ev("stdout", "header", "parameters", 0)>>
    /\ gen' = SeedEngine(params)
    /\ pc' = "ti"
    /\ phase' = "Test"
    /\ Tick
    /\ UNCHANGED <<params, a, k, s1, s2, i, frames, exitCode, wst, policy, log, a0,
                   aPre, genCalls>>
    /\ UNCHANGED Meta

\* bench(label, reporter, action): print the label and flush.
BenchLabel ==
    /\ pc = "label"
    /\ out' = Append(out, Ev("stdout", "label", Label(phase), 0))
    /\ log' = Append(log, LogEv("label", 0, phase))
    /\ pc' = "ti"
    /\ Tick
    /\ UNCHANGED <<phase, params, gen, a, k, s1, s2, i, frames, exitCode, wst, policy,
                   a0, aPre, genCalls>>
    /\ UNCHANGED Meta

\* A start reading taken before the label was printed.
TiReadingEarly(now) == now - 1

\* const auto ti = clock::now(): the reading bench() takes before the call.
TiReading(now) == now

\* bench(reporter, action): read the clock, then call the action.
BenchStart ==
    /\ pc = "ti"
    /\ frames' = Append(frames, [id |-> Len(log) + 1, phase |-> phase,
                                 reporter |-> Reporter(phase), ti |-> TiReading(clock),
                                 tf |-> None, ret |-> None])
    /\ log' = Append(log, LogEv("start", Len(log) + 1, phase))
    /\ pc' = "action"
    /\ Tick
    /\ UNCHANGED <<phase, params, gen, a, k, s1, s2, i, out, exitCode, wst, policy,
                   a0, aPre, genCalls>>
    /\ UNCHANGED Meta

\* The action of the outer bench() call is test(): its vector starts empty and
\* its first statement is the Allocating bench() call.
EnterTest ==
    /\ pc = "action"
    /\ phase = "Test"
    /\ a' = <<>>
    /\ phase' = "Allocating"
    /\ pc' = "label"
    /\ Tick
    /\ UNCHANGED <<params, gen, k, s1, s2, i, frames, out, exitCode, wst, policy, log,
                   a0, aPre, genCalls>>
    /\ UNCHANGED Meta

\* call(action): the result of the action, or a monostate when it is void
\* (None stands for "no value").
Call(r) == IF r = None THEN Monostate ELSE r

\* The action returned r: bench() keeps call(action) in ret and goes on to
\* read the clock; the history notes the return.
Returned(r) ==
    /\ log' = Append(log, LogEv("returned", Top.id, phase))
    /\ frames' = [frames EXCEPT ![Len(frames)].ret = Call(r)]

\* The action threw std::bad_alloc: the stack is unwound up to main's handler.
Threw ==
    /\ log' = Append(log, LogEv("threw", Top.id, phase))
    /\ frames' = frames

\* resize(n) of the empty vector obtains memory only for n > 0.
ResizeAllocates(n) == n > 0

\* The parallel sort needs temporary memory only when it has elements to
\* hand out to more than one worker.
SortAllocates(n) == n > 1

\* Allocating: a.resize(params.length), which throws when memory is short.
Allocate ==
    /\ pc = "action"
    /\ phase = "Allocating"
    /\ \E enough \in BOOLEAN :
          IF (enough /\ params.length <= MaxLen) \/ ~ResizeAllocates(params.length)
          THEN /\ a' = Resize(a, params.length)
               /\ pc' = "tf"
               /\ Returned(None)
          ELSE /\ a' = a
               /\ pc' = "unwind"
               /\ Threw
    /\ k' = 0
    /\ Tick
    /\ UNCHANGED <<phase, params, gen, s1, s2, i, out, exitCode, wst, policy,
                   a0, aPre, genCalls>>
    /\ UNCHANGED Meta

\* Generating: std::generate(begin(a), end(a), std::ref(gen)), one element.
\* A fill that walks the range from its end.
GenerateIndexBackwards(done, n) == n - done

\* std::generate(first, last, g): the element assigned after `done`
\* assignments is the next one from the front.
GenerateIndex(done, n) == done + 1

GenerateStep ==
    /\ pc = "action"
    /\ phase = "Generating"
    /\ k < Len(a)
    /\ gen' = GenNext(gen)
    /\ a' = [a EXCEPT ![GenerateIndex(k, Len(a))] = GenNext(gen)]
    /\ k' = k + 1
    /\ genCalls' = genCalls + 1
    /\ Tick
    /\ UNCHANGED <<pc, phase, params, s1, s2, i, frames, out, exitCode, wst, policy,
                   log, a0, aPre>>
    /\ UNCHANGED Meta

\* Generating: std::generate reached end(a) and returns.
GenerateEnd ==
    /\ pc = "action"
    /\ phase = "Generating"
    /\ ~(k < Len(a))
    /\ a0' = a
    /\ pc' = "tf"
    /\ Returned(None)
    /\ Tick
    /\ UNCHANGED <<phase, params, gen, a, k, s1, s2, i, out, exitCode, wst,
                   policy, aPre, genCalls>>
    /\ UNCHANGED Meta

\* A reduction that consumes the elements it reads.
ConstRangeZeroed(s) == [j \in DOMAIN s |-> 0]

\* cbegin(a), cend(a): the range read through const iterators is left as
\* it is by the algorithm that reads it.
ConstRange(s) == s

\* Hashing: s = std::accumulate(cbegin(a), cend(a), 0u); print it; return it.
Hash ==
    /\ pc = "action"
    /\ phase = "Hashing"
    /\ out' = Append(out, Ev("stdout", "hash", "", Sum(a)))
    /\ pc' = "tf"
    /\ Returned(Sum(a))
    /\ a' = ConstRange(a)
    /\ Tick
    /\ UNCHANGED <<phase, params, gen, k, s1, s2, i, exitCode, wst, policy,
                   a0, aPre, genCalls>>
    /\ UNCHANGED Meta

\* A dispatch that always takes the parallel overload.
SortPolicyAlwaysPar(mode) == "par"

\* A dispatch with the par_unseq alternative left out.
SortPolicyMissingCase(mode) ==
    IF mode = "seq" THEN "seq"
    ELSE IF mode = "par" THEN "par"
    ELSE "NOT_REACHED"

\* visit(..., params.mode): the std::sort overload the Sorting action calls;
\* "NOT_REACHED" stands for a mode outside the three alternatives.
SortPolicy(mode) ==
    IF mode = "seq" THEN "seq"
    ELSE IF mode = "par" THEN "par"
    ELSE IF mode = "par_unseq" THEN "par_unseq"
    ELSE "NOT_REACHED"

\* Sorting with std::execution::seq: the calling thread sorts, no worker.
SortSequenced ==
    /\ pc = "action"
    /\ phase = "Sorting"
    /\ SortPolicy(params.mode) = "seq"
    /\ policy' = "seq"
    /\ aPre' = a
    /\ a' = StdSort(a)
    /\ pc' = "tf"
    /\ Returned(None)
    /\ Tick
    /\ UNCHANGED <<phase, params, gen, k, s1, s2, i, out, exitCode, wst, a0,
                   genCalls>>
    /\ UNCHANGED Meta

\* Sorting with par or par_unseq: the call hands one half of the array to each
\* worker and blocks; it throws std::bad_alloc when the temporary memory the
\* parallel algorithm needs is not available.
SortParallelFork ==
    /\ pc = "action"
    /\ phase = "Sorting"
    /\ SortPolicy(params.mode) \in {"par", "par_unseq"}
    /\ policy' = SortPolicy(params.mode)
    /\ aPre' = a
    /\ \E enough \in BOOLEAN :
          IF enough \/ ~SortAllocates(Len(a))
          THEN /\ wst' = [w \in Workers |-> "running"]
               /\ pc' = "sorting"
               /\ log' = log
               /\ frames' = frames
          ELSE /\ wst' = wst
               /\ pc' = "unwind"
               /\ Threw
    /\ Tick
    /\ UNCHANGED <<phase, params, gen, a, k, s1, s2, i, out, exitCode, a0,
                   genCalls>>
    /\ UNCHANGED Meta

\* One step of worker w: exchange the first adjacent pair of its half that is
\* out of order, or finish when there is none.
WorkerStep(w) ==
    /\ pc = "sorting"
    /\ wst[w] = "running"
    /\ LET inv == Inversions(a, Slice(w, Len(a))) IN
          IF inv = {}
          THEN /\ wst' = [wst EXCEPT ![w] = "done"]
               /\ a' = a
          ELSE /\ wst' = wst
               /\ a' = SwapAt(a, SetMin(inv))
    /\ Tick
    /\ UNCHANGED <<pc, phase, params, gen, k, s1, s2, i, frames, out, exitCode, policy,
                   log, a0, aPre, genCalls>>
    /\ UNCHANGED Meta

\* A join whose wake-up is lost: the calling thread waits for ever.
JoinReadyNever(st) == FALSE

\* A join that waits for the first worker only.
JoinReadyFirst(st) == st[1] = "done"

\* The parallel sort returns when every worker has finished.
JoinReady(st) == \A w \in Workers : st[w] = "done"

\* The workers are joined: the calling thread merges the halves and returns.
SortParallelJoin ==
    /\ pc = "sorting"
    /\ JoinReady(wst)
    /\ a' = Merge(SubSeq(a, 1, Len(a) \div 2), SubSeq(a, (Len(a) \div 2) + 1, Len(a)))
    /\ wst' = [w \in Workers |-> IF wst[w] = "done" THEN "idle" ELSE wst[w]]
    /\ pc' = "tf"
    /\ Returned(None)
    /\ Tick
    /\ UNCHANGED <<phase, params, gen, k, s1, s2, i, out, exitCode, policy, a0,
                   aPre, genCalls>>
    /\ UNCHANGED Meta

\* A diagnostic that does not look at the checksums.
SameTextAlways(x, y) == "same."

\* The diagnostic of the Rehashing phase: s1 == s2 ? "same." : "DIFFERENT!".
SameText(x, y) == IF x = y THEN "same." ELSE "DIFFERENT!"

\* The diagnostic of the Checking phase.
SortedText(ok) == IF ok THEN "sorted." ELSE "NOT SORTED!"

\* A negative diagnostic treated as a hard failure.
AfterDiagnosticAbort(text) ==
    IF text \in {"DIFFERENT!", "NOT SORTED!"} THEN "unwind" ELSE "tf"

\* What the Rehashing / Checking action does after printing its diagnostic:
\* it returns to bench() whatever the diagnostic was.
AfterDiagnostic(text) == "tf"

\* Rehashing: s2 = std::accumulate(...); print s2 and whether s1 == s2.
Rehash ==
    /\ pc = "action"
    /\ phase = "Rehashing"
    /\ s2' = Sum(a)
    /\ out' = Append(out, Ev("stdout", "rehash", SameText(s1, Sum(a)), Sum(a)))
    /\ pc' = AfterDiagnostic(SameText(s1, Sum(a)))
    /\ IF AfterDiagnostic(SameText(s1, Sum(a))) = "tf" THEN Returned(None) ELSE Threw
    /\ a' = ConstRange(a)
    /\ Tick
    /\ UNCHANGED <<phase, params, gen, k, s1, i, exitCode, wst, policy, a0,
                   aPre, genCalls>>
    /\ UNCHANGED Meta

\* Checking: ok = std::is_sorted(cbegin(a), cend(a)); print the verdict.
Check ==
    /\ pc = "action"
    /\ phase = "Checking"
    /\ out' = Append(out, Ev("stdout", "check", SortedText(IsSorted(a)), 0))
    /\ pc' = AfterDiagnostic(SortedText(IsSorted(a)))
    /\ IF AfterDiagnostic(SortedText(IsSorted(a))) = "tf" THEN Returned(None) ELSE Threw
    /\ a' = ConstRange(a)
    /\ Tick
    /\ UNCHANGED <<phase, params, gen, k, s1, s2, i, exitCode, wst, policy,
                   a0, aPre, genCalls>>
    /\ UNCHANGED Meta

\* bench(reporter, action): the action returned, read the clock again.
BenchStop ==
    /\ pc = "tf"
    /\ frames' = [frames EXCEPT ![Len(frames)].tf = clock]
    /\ log' = Append(log, LogEv("stop", Top.id, phase))
    /\ pc' = "report"
    /\ Tick
    /\ UNCHANGED <<phase, params, gen, a, k, s1, s2, i, out, exitCode, wst, policy,
                   a0, aPre, genCalls>>
    /\ UNCHANGED Meta

\* A bench() that returns nothing: the result of the action is dropped.
BenchReturnVoid(fr) == None

\* bench(reporter, action): return ret, the result of call(action).
BenchReturn(fr) == fr.ret

\* A return that leaves the record of the call behind.
PopFrameLeak(fs) == fs

\* A bench() call is left: its locals are gone.
PopFrame(fs) == SubSeq(fs, 1, Len(fs) - 1)

\* bench(reporter, action): call the reporter with tf - ti and return ret to
\* the caller, which goes on with its next statement (the Hashing call
\* initialises s1 with the value returned; test() itself returns after the
\* Checking call, which is the return of the action of the outer call).
BenchReport ==
    /\ pc = "report"
    /\ out' = out \o ReportOutput(Top.reporter, Top.tf - Top.ti)
    /\ s1' = IF phase = "Hashing" THEN BenchReturn(Top) ELSE s1
    /\ IF AfterReport(phase, i, params.inplace_reps).pc = "tf"
       THEN /\ log' = Append(log, LogEv("report", Top.id, phase))
                        \o <<LogEv("returned", PopFrame(frames)[1].id, "Test")>>
            /\ frames' = [PopFrame(frames) EXCEPT ![1].ret = Call(None)]
       ELSE /\ log' = Append(log, LogEv("report", Top.id, phase))
            /\ frames' = PopFrame(frames)
    /\ phase' = AfterReport(phase, i, params.inplace_reps).phase
    /\ pc' = AfterReport(phase, i, params.inplace_reps).pc
    /\ i' = AfterReport(phase, i, params.inplace_reps).i
    /\ Tick
    /\ UNCHANGED <<params, gen, a, k, s2, exitCode, wst, policy, a0, aPre, genCalls>>
    /\ UNCHANGED Meta

\* An exception leaves a bench() call: the call is abandoned.
Unwind ==
    /\ pc = "unwind"
    /\ frames # <<>>
    /\ out' = out \o UnwindOutput(Top)
    /\ frames' = PopFrame(frames)
    /\ log' = Append(log, LogEv("unwound", Top.id, Top.phase))
    /\ Tick
    /\ UNCHANGED <<pc, phase, params, gen, a, k, s1, s2, i, exitCode, wst, policy, a0,
                   aPre, genCalls>>
    /\ UNCHANGED Meta

\* main: catch (const std::bad_alloc&): end the line, die("not enough memory").
Catch ==
    /\ pc = "unwind"
    /\ frames = <<>>
    /\ out' = out \o CatchOutput
    /\ exitCode' = "EXIT_FAILURE"
    /\ pc' = "exited"
    /\ Tick
    /\ UNCHANGED <<phase, params, gen, a, k, s1, s2, i, frames, wst, policy, log, a0,
                   aPre, genCalls>>
    /\ UNCHANGED Meta

\* main returns after the outer bench() call: the process exits with 0.
MainReturn ==
    /\ pc = "return"
    /\ exitCode' = "EXIT_SUCCESS"
    /\ pc' = "exited"
    /\ Tick
    /\ UNCHANGED <<phase, params, gen, a, k, s1, s2, i, frames, out, wst, policy, log,
                   a0, aPre, genCalls>>
    /\ UNCHANGED Meta

Common ==
    \/ Configure
    \/ Header
    \/ BenchLabel
    \/ BenchStart
    \/ EnterTest
    \/ Allocate
    \/ GenerateEnd
    \/ Hash
    \/ SortSequenced
    \/ SortParallelFork
    \/ \E w \in Workers : WorkerStep(w)
    \/ SortParallelJoin
    \/ Rehash
    \/ Check
    \/ BenchStop
    \/ BenchReport
    \/ Unwind
    \/ Catch
    \/ MainReturn

Next == Common \/ GenerateStep

Spec == Init /\ [][Next]_vars

\* The main thread takes its next step whenever it has one (every library
\* call returns or throws), and each worker of std::sort is scheduled as
\* long as it has work.
Fairness == WF_vars(Next) /\ \A w \in Workers : WF_vars(WorkerStep(w))

SpecLive == Init /\ [][Next]_vars /\ Fairness

(***************************************************************************)
(* A faulty platform: the program exists to reproduce a system stability   *)
(* problem, and its "DIFFERENT!" and "NOT SORTED!" branches are reached    *)
(* only when the memory of the workload is corrupted under it.             *)
(***************************************************************************)
FlipBit(x, b) == IF (x \div (2 ^ b)) % 2 = 0 THEN x + (2 ^ b) ELSE x - (2 ^ b)

\* The machine flips one bit of one element while a Sorting phase is on.
Corrupt ==
    /\ phase = "Sorting"
    /\ pc \in {"action", "sorting", "tf"}
    /\ faults < MaxFaults
    /\ \E j \in 1 .. Len(a), b \in 0 .. (Width - 1) :
          a' = [a EXCEPT ![j] = FlipBit(a[j], b)]
    /\ faults' = faults + 1
    /\ UNCHANGED <<vm, entropy, pc, phase, params, gen, k, s1, s2, i, frames, clock,
                   out, exitCode, wst, policy, log, a0, aPre, genCalls, run, prev>>

ValidVM(v) ==
    /\ ~v.malformed
    /\ ~v.help
    /\ v.length \in 0 .. MaxLen
    /\ Count(v.seq) + Count(v.par) + Count(v.par_unseq) <= 1

InitFaulty ==
    /\ run = 1
    /\ prev = NoPrev
    /\ \E v \in VMs :
          /\ ValidVM(v)
          /\ v.seed # None
          /\ ~v.time
          /\ Start(v, 0)

NextFaulty == Next \/ Corrupt

SpecFaulty == InitFaulty /\ [][NextFaulty]_vars

(***************************************************************************)
(* Free input: the engine is left open, every element may get any value,   *)
(* so that the phases after Generating see every short sequence.           *)
(***************************************************************************)
AnyValues == 0 .. Min(MaxAnyVal, UnsignedMax)

GenerateAny ==
    /\ pc = "action"
    /\ phase = "Generating"
    /\ k < Len(a)
    /\ \E v \in AnyValues :
          /\ gen' = v
          /\ a' = [a EXCEPT ![GenerateIndex(k, Len(a))] = v]
    /\ k' = k + 1
    /\ genCalls' = genCalls + 1
    /\ Tick
    /\ UNCHANGED <<pc, phase, params, s1, s2, i, frames, out, exitCode, wst, policy,
                   log, a0, aPre>>
    /\ UNCHANGED Meta

InitAny ==
    /\ run = 1
    /\ prev = NoPrev
    /\ \E v \in VMs :
          /\ ValidVM(v)
          /\ v.length <= MaxAnyLen
          /\ v.seed = 0
          /\ ~v.time
          /\ Start(v, 0)

NextAny == Common \/ GenerateAny

SpecAny == InitAny /\ [][NextAny]_vars

(***************************************************************************)
(* Two runs of the program, one after the other, on command lines that     *)
(* give the same length and resolve to the same seed.                      *)
(***************************************************************************)
PairSeeds == 0 .. Min(MaxPairSeed, UnsignedMax)

InitPair ==
    /\ run = 1
    /\ prev = NoPrev
    /\ \E v \in VMs :
          /\ ValidVM(v)
          /\ v.length <= MaxPairLen
          /\ v.seed \in PairSeeds
          /\ ~v.time
          /\ Start(v, 0)

\* The first run completed; the program is started again.
Rerun ==
    /\ run = 1
    /\ pc = "exited"
    /\ exitCode = "EXIT_SUCCESS"
    /\ run' = 2
    /\ prev' = [params |-> params, a0 |-> a0, a |-> a, s1 |-> s1, s2 |-> s2,
                out |-> out, exitCode |-> exitCode]
    /\ \E v \in VMs, rd \in Seeds :
          /\ ValidVM(v)
          /\ v.length = vm.length
          /\ \/ v.seed = params.seed /\ rd = 0
             \/ v.seed = None /\ rd = params.seed
          /\ vm' = v
          /\ entropy' = rd
    /\ pc' = "configure"
    /\ phase' = "Test"
    /\ params' = NoParams
    /\ gen' = 0
    /\ a' = <<>>
    /\ k' = 0
    /\ s1' = None
    /\ s2' = None
    /\ i' = 0
    /\ frames' = <<>>
    /\ clock' = 0
    /\ out' = <<>>
    /\ exitCode' = "none"
    /\ wst' = [w \in Workers |-> "idle"]
    /\ policy' = "none"
    /\ log' = <<>>
    /\ a0' = <<>>
    /\ aPre' = <<>>
    /\ genCalls' = 0
    /\ faults' = 0

NextPair == Next \/ Rerun

SpecPair == InitPair /\ [][NextPair]_vars

(***************************************************************************)
(* Vocabulary of the properties.                                           *)
(***************************************************************************)
IsPrefix(s, t) == Len(s) <= Len(t) /\ SubSeq(t, 1, Len(s)) = s

Occurrences(s, v) == Cardinality({j \in DOMAIN s : s[j] = v})

\* t holds the same values as s, each as often.
IsPermutation(s, t) ==
    /\ Len(s) = Len(t)
    /\ \A v \in 0 .. UnsignedMax : Occurrences(s, v) = Occurrences(t, v)

LogIdx(ev) == {j \in DOMAIN log : log[j].ev = ev}
LogIdxIn(ev, P) == {j \in DOMAIN log : log[j].ev = ev /\ log[j].phase \in P}
LogOf(ev, id) == {j \in DOMAIN log : log[j].ev = ev /\ log[j].id = id}

IsStart(e) == e.ev = "start"
\* The phases whose bench() call has started, in order.
StartedPhases ==
    LET st == SelectSeq(log, IsStart) IN [j \in DOMAIN st |-> st[j].phase]

ExpectedPhases(reps) ==
    <<"Test", "Allocating", "Generating", "Hashing">>
        \o [j \in 1 .. reps |-> "Sorting"] \o <<"Rehashing", "Checking">>

OutIdx(kind) == {j \in DOMAIN out : out[j].kind = kind}
Configured == params # NoParams
Completed == pc = "exited" /\ exitCode = "EXIT_SUCCESS" /\ Configured
HasReturned(ph) == LogIdxIn("returned", {ph}) # {}

IsDiagnostic(e) == e.kind \in {"hash", "rehash", "check"}
Diagnostics(o) == SelectSeq(o, IsDiagnostic)

(***************************************************************************)
(* Properties.                                                             *)
(***************************************************************************)

\* C1: at every moment the phases started so far are a prefix of Test,
\* Allocating, Generating, Hashing, Sorting (inplace_reps times), Rehashing,
\* Checking; a run that completes has started all of them; the overall time
\* is printed at most once, nothing is printed after it, and in a completed
\* run it directly follows the verdict and the time of the Checking phase.
C1_PhaseOrder ==
    /\ Configured => IsPrefix(StartedPhases, ExpectedPhases(params.inplace_reps))
    /\ Cardinality(OutIdx("full")) <= 1
    /\ \A j \in OutIdx("full") : j = Len(out)
    /\ Completed =>
          /\ StartedPhases = ExpectedPhases(params.inplace_reps)
          /\ OutIdx("full") = {Len(out)}
          /\ out[Len(out) - 1].kind = "time_only"
          /\ out[Len(out) - 2].kind = "check"
          /\ log[Len(log)].ev = "report"
          /\ log[Len(log)].id = 1
          /\ log[Len(log)].phase = "Test"

C1_Witness ==
    /\ Completed
    /\ params.inplace_reps = 2
    /\ params.length = 3

\* C2: once std::bad_alloc was thrown in Allocating or Generating, no bench()
\* call starts or reports any more, the overall time is never printed, the
\* process does not exit with success, and when it has exited it did so with
\* EXIT_FAILURE after printing a newline right behind the pending label and
\* then the "not enough memory" message.
C2_AllocationFailure ==
    \A t \in LogIdxIn("threw", {"Allocating", "Generating"}) :
        /\ \A j \in LogIdx("start") \cup LogIdx("report") : j < t
        /\ OutIdx("full") = {}
        /\ pc \in {"unwind", "exited"}
        /\ exitCode # "EXIT_SUCCESS"
        /\ Cardinality(LogIdx("threw")) = 1
        /\ pc = "exited" =>
              /\ exitCode = "EXIT_FAILURE"
              /\ Len(out) >= 3
              /\ out[Len(out)] = Ev("stderr", "error", "not enough memory", 0)
              /\ out[Len(out) - 1] = Ev("stdout", "newline", "", 0)
              /\ out[Len(out) - 2].kind = "label"

C2_Witness ==
    /\ pc = "exited"
    /\ LogIdxIn("threw", {"Allocating"}) # {}
    /\ params.length = 2

\* C3: a bench() call reports at most once and only after its action has
\* returned; a call that an exception left has not reported; every line a
\* reporter prints belongs to a report; and when the process has exited,
\* exactly the calls whose action returned have reported and all others were
\* left by the exception.
C3_ReportOnlyOnReturn ==
    /\ \A c \in LogIdx("start") :
          LET id == log[c].id IN
          /\ Cardinality(LogOf("report", id)) <= 1
          /\ \A r \in LogOf("report", id) : \E e \in LogOf("returned", id) : e < r
          /\ LogOf("unwound", id) # {} =>
                /\ LogOf("report", id) = {}
                /\ LogOf("returned", id) = {}
          /\ pc = "exited" =>
                /\ LogOf("report", id) # {} <=> LogOf("returned", id) # {}
                /\ LogOf("report", id) = {} <=> LogOf("unwound", id) # {}
    /\ Cardinality(OutIdx("time_only")) + Cardinality(OutIdx("full"))
          = Cardinality(LogIdx("report"))

C3_Witness ==
    /\ pc = "exited"
    /\ LogIdxIn("unwound", {"Sorting"}) # {}
    /\ LogIdxIn("unwound", {"Test"}) # {}
    /\ LogIdxIn("report", {"Hashing"}) # {}

\* C4: however the Rehashing and Checking diagnostics turn out, once the
\* Rehashing action has printed its diagnostic no exception is raised, the
\* process never exits with a failure, and a run that has exited has run the
\* Checking phase and printed the overall time.
C4_DiagnosticsDoNotAbort ==
    OutIdx("rehash") # {} =>
        /\ LogIdx("threw") = {}
        /\ pc # "unwind"
        /\ exitCode # "EXIT_FAILURE"
        /\ pc = "exited" =>
              /\ exitCode = "EXIT_SUCCESS"
              /\ StartedPhases = ExpectedPhases(params.inplace_reps)
              /\ OutIdx("check") # {}
              /\ \A r \in OutIdx("rehash"), c \in OutIdx("check") : r < c
              /\ OutIdx("full") = {Len(out)}

C4_Witness ==
    /\ pc = "exited"
    /\ \E r \in OutIdx("rehash") : out[r].text = "DIFFERENT!"
    /\ \E c \in OutIdx("check") : out[c].text = "NOT SORTED!"

\* C5: when a std::sort call of the Sorting phase has returned, whatever the
\* mode and whatever the array held, the array is in ascending order and
\* holds the values it held when the call started, each as often.
C5_SortedPermutation ==
    (phase = "Sorting" /\ pc \in {"tf", "report"}) =>
        /\ IsSorted(a)
        /\ IsPermutation(a, aPre)

C5_Witness ==
    /\ phase = "Sorting"
    /\ pc = "report"
    /\ params.mode = "par_unseq"
    /\ Len(a) = 3
    /\ ~IsSorted(aPre)
    /\ \E j \in 1 .. 2 : a[j] = a[j + 1]

\* C6: a second run that completed with the seed, length, repetition count,
\* seed origin and display flag of the first and any mode ends with the
\* workload, the two checksums and the diagnostics of the first run.
C6_ModeDoesNotChangeResult ==
    (/\ run = 2
     /\ Completed
     /\ params.seed = prev.params.seed
     /\ params.length = prev.params.length
     /\ params.inplace_reps = prev.params.inplace_reps
     /\ params.seed_origin = prev.params.seed_origin
     /\ params.show_start_time = prev.params.show_start_time) =>
        /\ a = prev.a
        /\ s1 = prev.s1
        /\ s2 = prev.s2
        /\ Diagnostics(out) = Diagnostics(prev.out)

C6_Witness ==
    /\ run = 2
    /\ Completed
    /\ params.inplace_reps = prev.params.inplace_reps
    /\ params.seed_origin = prev.params.seed_origin
    /\ params.show_start_time = prev.params.show_start_time
    /\ prev.params.mode = "seq"
    /\ params.mode = "par"
    /\ params.length = 3
    /\ ~IsSorted(a0)

\* C7: the checksum of the workload equals the checksum of each of its
\* rearrangements, and once Rehashing has computed s2 over an array that is
\* a permutation of the generated one, s2 equals s1.
C7_ChecksumPermutationInvariant ==
    /\ \A p \in Permutations(DOMAIN a) :
          Sum([j \in DOMAIN a |-> a[p[j]]]) = Sum(a)
    /\ (s2 # None /\ IsPermutation(a, a0)) => s2 = s1

C7_Witness ==
    /\ s2 # None
    /\ IsPermutation(a, a0)
    /\ a # a0
    /\ Len(a) = 3
    /\ a[1] + a[2] + a[3] >= Modulus

\* C8: a second run whose Generating phase has returned holds, with the seed
\* and length of the first run, the workload the first run generated,
\* whatever its mode, repetition count, seed origin and display flag.
C8_GenerationDeterministic ==
    (/\ run = 2
     /\ HasReturned("Generating")
     /\ params.seed = prev.params.seed
     /\ params.length = prev.params.length) =>
        a0 = prev.a0

C8_Witness ==
    /\ run = 2
    /\ HasReturned("Generating")
    /\ params.length = 3
    /\ params.mode # prev.params.mode
    /\ params.inplace_reps # prev.params.inplace_reps
    /\ params.seed_origin # prev.params.seed_origin
    /\ params.show_start_time # prev.params.show_start_time

\* C9: the workload is empty until the Allocating action has returned and
\* has exactly params.length elements from then on; Generating has invoked
\* the engine once per element when it returns, params.length times.
C9_SizeIsLength ==
    /\ ~HasReturned("Allocating") => a = <<>>
    /\ HasReturned("Allocating") => Len(a) = params.length
    /\ HasReturned("Generating") => (k = params.length /\ genCalls = params.length)
    /\ (phase = "Generating" /\ pc = "action") => genCalls = k

C9_Witness ==
    /\ Completed
    /\ params.length = 3
    /\ params.inplace_reps = 2
    /\ params.mode = "par"

\* C10: a std::sort call of a repetition after the first returns with the
\* array as it found it, and with more than one repetition the Checking
\* phase reports "sorted.".
C10_RepeatedSortIdempotent ==
    /\ (phase = "Sorting" /\ pc \in {"tf", "report"} /\ i < params.inplace_reps) =>
          a = aPre
    /\ params.inplace_reps > 1 =>
          \A c \in OutIdx("check") : out[c].text = "sorted."

C10_Witness ==
    /\ OutIdx("check") # {}
    /\ params.inplace_reps = 2
    /\ Cardinality(LogIdxIn("returned", {"Sorting"})) = 2
    /\ params.mode = "par"
    /\ Len(a) = 3
    /\ ~IsSorted(a0)

\* C11: in a run configured with length 0 the workload stays empty, the
\* engine is never invoked, no exception is raised and the process does not
\* exit with a failure; every checksum computed and printed is 0, the
\* Rehashing diagnostic is "same." and the Checking verdict "sorted."; a run
\* that has exited completed with both checksums computed.
C11_ZeroLength ==
    (Configured /\ params.length = 0) =>
        /\ a = <<>>
        /\ genCalls = 0
        /\ LogIdx("threw") = {}
        /\ pc # "unwind"
        /\ exitCode # "EXIT_FAILURE"
        /\ s1 \in {None, 0}
        /\ s2 \in {None, 0}
        /\ \A h \in OutIdx("hash") : out[h].val = 0
        /\ \A r \in OutIdx("rehash") : out[r].val = 0 /\ out[r].text = "same."
        /\ \A c \in OutIdx("check") : out[c].text = "sorted."
        /\ pc = "exited" =>
              /\ Completed
              /\ s1 = 0
              /\ s2 = 0
              /\ OutIdx("rehash") # {}
              /\ OutIdx("check") # {}

C11_Witness ==
    /\ Completed
    /\ params.length = 0
    /\ params.mode = "par"
    /\ params.inplace_reps = 2

\* C12: the Sorting bench() call starts at most inplace_reps times, and in
\* a completed run it started and reported exactly inplace_reps times; in
\* the history nothing of another phase lies between two Sorting events,
\* every Sorting call starts after Hashing reported and before Rehashing
\* prints its label; the array does not change between the return of one
\* action and the start of the next sort, which takes the array as it is.
C12_SortRepetitionsState ==
    /\ Configured =>
          Cardinality(LogIdxIn("start", {"Sorting"})) <= params.inplace_reps
    /\ Completed =>
          /\ Cardinality(LogIdxIn("start", {"Sorting"})) = params.inplace_reps
          /\ Cardinality(LogIdxIn("report", {"Sorting"})) = params.inplace_reps
    /\ \A x \in LogIdxIn("start", {"Sorting"}) :
          /\ \A y \in LogIdxIn("start", {"Sorting"}) :
                \A j \in x .. y : log[j].phase = "Sorting"
          /\ \E h \in LogIdxIn("report", {"Hashing"}) : h < x
          /\ \A r \in LogIdxIn("label", {"Rehashing"}) : x < r

C12_SortRepetitionsStep ==
    /\ ((phase = "Sorting" /\ pc \in {"label", "ti", "tf", "report"})
         \/ (phase = "Hashing" /\ pc \in {"tf", "report"})) => a' = a
    /\ (phase = "Sorting" /\ pc = "action") => aPre' = a

C12_SortRepetitions ==
    []C12_SortRepetitionsState /\ [][C12_SortRepetitionsStep]_vars

C12_Witness ==
    /\ Completed
    /\ params.inplace_reps = 2
    /\ params.mode = "par"
    /\ params.length = 4
    /\ ~IsSorted(a0)

C14_PhasesSequential ==
    /\ Len(frames) <= 2
    /\ frames # <<>> => frames[1].phase = "Test"
    /\ Len(frames) = 2 => (frames[2].phase = phase /\ phase # "Test")
    /\ \A c \in LogIdx("label") \cup LogIdx("start") :
          \A b \in LogIdx("start") :
              (b < c /\ log[b].phase # "Test") =>
                  \E r \in LogOf("report", log[b].id) : r < c
    /\ \A x \in OutIdx("label") :
          Cardinality({y \in OutIdx("label") : y < x})
              = Cardinality({y \in OutIdx("time_only") : y < x})

C14_Witness ==
    /\ phase = "Sorting"
    /\ pc = "sorting"
    /\ Len(frames) = 2
    /\ params.inplace_reps = 2
    /\ i = 1

\* C15: a worker is running or waiting to be joined only while the main
\* thread is inside the std::sort call of a Sorting phase whose mode is par
\* or par_unseq; in every other position of the main thread, the reading of
\* the clock and the report of that phase included, all workers are idle.
C15_WorkersOnlyInsideSort ==
    /\ (\E w \in Workers : wst[w] # "idle") =>
          /\ pc = "sorting"
          /\ phase = "Sorting"
          /\ Len(frames) = 2
          /\ params.mode \in {"par", "par_unseq"}
    /\ pc # "sorting" => \A w \in Workers : wst[w] = "idle"
    /\ (Configured /\ params.mode = "seq") => pc # "sorting"

C15_Witness ==
    /\ pc = "sorting"
    /\ wst[1] = "done"
    /\ wst[2] = "running"
    /\ params.mode = "par_unseq"
    /\ Len(a) = 4

\* C16: the length configure() returns is below SIZE_MAX / sizeof(unsigned)
\* and its byte size does not exceed SIZE_MAX; a command line whose length
\* is at or above that bound never gets past configure(): no parameters, no
\* bench() call, and unless it is malformed or asks for help the process
\* has exited with EXIT_FAILURE and the "too big" message.
C16_LengthValidated ==
    /\ Configured =>
          /\ params.length >= 0
          /\ params.length < SizeMax \div SizeofUnsigned
          /\ params.length * SizeofUnsigned <= SizeMax
    /\ (pc # "configure" /\ vm.length >= SizeMax \div SizeofUnsigned) =>
          /\ ~Configured
          /\ pc = "exited"
          /\ log = <<>>
          /\ (~vm.malformed /\ ~vm.help) =>
                /\ exitCode = "EXIT_FAILURE"
                /\ out = <<Ev("stderr", "error", "length is too big", 0)>>

C16_Witness ==
    /\ Configured
    /\ params.length = (SizeMax \div SizeofUnsigned) - 1
    /\ phase = "Allocating"
    /\ pc = "action"

\* C17: configure() returns mode par when none of --seq, --par, --par-unseq
\* is given, and the mode of the flag when exactly one is given.
C17_ModeResolution ==
    Configured =>
        /\ (~vm.seq /\ ~vm.par /\ ~vm.par_unseq) => params.mode = "par"
        /\ (vm.seq /\ ~vm.par /\ ~vm.par_unseq) => params.mode = "seq"
        /\ (~vm.seq /\ vm.par /\ ~vm.par_unseq) => params.mode = "par"
        /\ (~vm.seq /\ ~vm.par /\ vm.par_unseq) => params.mode = "par_unseq"

C17_Witness ==
    /\ Configured
    /\ vm.par_unseq
    /\ params.mode = "par_unseq"
    /\ pc = "header"

\* C18: no command line takes extract_dynamic_execution_policy to its
\* NOT_REACHED branch; the mode configure() returns is one of seq, par,
\* par_unseq and the dispatch of the Sorting action maps it to itself; the
\* std::sort call made is the one of params.mode, with workers only for
\* par and par_unseq.
C18_DispatchMatchesMode ==
    /\ ExtractMode(vm) # "NOT_REACHED"
    /\ Configured =>
          /\ params.mode \in {"seq", "par", "par_unseq"}
          /\ SortPolicy(params.mode) = params.mode
    /\ policy \in {"none", "seq", "par", "par_unseq"}
    /\ policy # "none" => policy = params.mode
    /\ (phase = "Sorting" /\ pc \in {"sorting", "tf", "report"}) => policy = params.mode
    /\ pc = "sorting" => policy \in {"par", "par_unseq"}

C18_Witness ==
    /\ phase = "Sorting"
    /\ pc = "tf"
    /\ policy = "par_unseq"
    /\ Len(a) = 3

\* C19: in every bench() call with a label, the label is printed before ti
\* is read, the action ends after ti and before tf is read, and the reporter
\* runs after tf; ti and tf of the call are those two readings, and the
\* reporter prints exactly tf - ti.
C19_TimedIntervalState ==
    /\ \A f \in DOMAIN frames :
          /\ log[frames[f].id].ev = "start"
          /\ frames[f].ti = log[frames[f].id].at
          /\ frames[f].phase # "Test" =>
                /\ log[frames[f].id - 1].ev = "label"
                /\ log[frames[f].id - 1].phase = frames[f].phase
                /\ log[frames[f].id - 1].at < frames[f].ti
    /\ \A e \in LogIdx("returned") \cup LogIdx("threw") :
          log[log[e].id].at < log[e].at
    /\ \A p \in LogIdx("stop") :
          \E e \in LogOf("returned", log[p].id) : log[e].at < log[p].at
    /\ \A r \in LogIdx("report") :
          \E p \in LogOf("stop", log[r].id) : log[p].at < log[r].at
    /\ pc = "report" =>
          /\ Top.ti < Top.tf
          /\ \E p \in LogOf("stop", Top.id) : Top.tf = log[p].at

C19_TimedIntervalStep ==
    pc = "report" =>
        /\ Len(out') > Len(out)
        /\ out'[Len(out')].kind \in {"time_only", "full"}
        /\ out'[Len(out')].val = Top.tf - Top.ti

C19_TimedInterval ==
    []C19_TimedIntervalState /\ [][C19_TimedIntervalStep]_vars

C19_Witness ==
    /\ pc = "report"
    /\ phase = "Sorting"
    /\ params.mode = "par"
    /\ Top.tf - Top.ti >= 4

\* C20: when the action of a bench() call has returned, the result held by
\* the call is the checksum of the array for Hashing and the monostate for
\* every action that returns nothing, test() included, and it is unset while
\* the action runs; s1 is unset until the Hashing call has reported, and
\* from then on it is the checksum of the generated array, the value the
\* action printed; in a completed run every call, of either kind, reported.
C20_BenchReturnsResult ==
    /\ (frames # <<>> /\ pc \in {"tf", "report"}) =>
          Top.ret = (IF phase = "Hashing" THEN Sum(a) ELSE Monostate)
    /\ (frames # <<>> /\ pc \in {"action", "sorting"}) => Top.ret = None
    /\ LogIdxIn("report", {"Hashing"}) = {} => s1 = None
    /\ LogIdxIn("report", {"Hashing"}) # {} =>
          /\ s1 = Sum(a0)
          /\ OutIdx("hash") # {}
          /\ \A h \in OutIdx("hash") : out[h].val = s1
    /\ Completed =>
          \A b \in LogIdx("start") : LogOf("report", log[b].id) # {}

C20_Witness ==
    /\ phase = "Sorting"
    /\ pc = "label"
    /\ LogIdxIn("report", {"Hashing"}) # {}
    /\ Len(a) = 3
    /\ s1 = Sum(a0)
    /\ s1 > 0

\* The sum of the elements of s as an integer, without any wrap-around.
RECURSIVE Total(_)
Total(s) == IF s = <<>> THEN 0 ELSE Head(s) + Total(Tail(s))

\* The n-th output of the engine constructed from `seed`.
RECURSIVE EngineState(_, _)
EngineState(seed, n) == IF n = 0 THEN seed % Modulus ELSE GenNext(EngineState(seed, n - 1))

IsLabel(e) == e.kind = "label"
PhaseSequence(o) == [j \in DOMAIN SelectSeq(o, IsLabel) |-> SelectSeq(o, IsLabel)[j].text]

\* C21: the Rehashing action prints "same." exactly when the checksum it
\* computed equals s1, and "DIFFERENT!" otherwise; s1, once set by the
\* Hashing call, never changes and is the checksum of the generated array;
\* the Checking action prints "sorted." exactly when no element of the
\* workload is less than its predecessor, and "NOT SORTED!" otherwise.
C21_DiagnosticsState ==
    /\ \A r \in OutIdx("rehash") :
          /\ out[r].val = s2
          /\ out[r].text \in {"same.", "DIFFERENT!"}
          /\ out[r].text = "same." <=> s2 = s1
    /\ s1 # None => s1 = Sum(a0)
    /\ \A c \in OutIdx("check") :
          /\ out[c].text \in {"sorted.", "NOT SORTED!"}
          /\ out[c].text = "sorted." <=>
                \A j \in 1 .. (Len(a) - 1) : a[j] <= a[j + 1]

C21_DiagnosticsStep == s1 # None => s1' = s1

C21_Diagnostics == []C21_DiagnosticsState /\ [][C21_DiagnosticsStep]_vars

C21_Witness ==
    /\ Completed
    /\ \E r \in OutIdx("rehash") : out[r].text = "DIFFERENT!"
    /\ \E c \in OutIdx("check") : out[c].text = "sorted."
    /\ Len(a) = 3

\* C22: every checksum computed is the integer sum of the elements modulo
\* 2^Width and lies in 0 .. 2^Width - 1, also when the integer sum exceeds
\* that range; no exception is raised in Hashing or Rehashing, and a run
\* that has printed a checksum has not failed.
C22_ChecksumModular ==
    /\ s1 # None => (s1 \in 0 .. UnsignedMax /\ s1 = Total(a0) % Modulus)
    /\ s2 # None => (s2 \in 0 .. UnsignedMax /\ s2 = Total(a) % Modulus)
    /\ \A h \in OutIdx("hash") : out[h].val = Total(a0) % Modulus
    /\ LogIdxIn("threw", {"Hashing", "Rehashing"}) = {}
    /\ (phase \in {"Hashing", "Rehashing"} /\ Configured) =>
          (pc # "unwind" /\ exitCode = "none")

C22_Witness ==
    /\ Completed
    /\ Total(a0) > UnsignedMax
    /\ s1 = Total(a0) - Modulus
    /\ s2 = s1

\* C23: while and after Generating runs, the engine has been invoked once
\* per element assigned, the elements assigned are the first ones of the
\* array and element j holds the j-th output of the engine seeded with
\* params.seed; the count is params.length once Generating has returned;
\* the engine is invoked only by the Generating action, one element at a
\* time, for the next index.
C23_GenerationState ==
    /\ genCalls = k
    /\ genCalls <= Len(a)
    /\ (phase = "Generating" /\ pc = "action") =>
          \A j \in 1 .. Len(a) :
              a[j] = (IF j <= genCalls THEN EngineState(params.seed, j) ELSE 0)
    /\ HasReturned("Generating") =>
          /\ genCalls = params.length
          /\ Len(a0) = params.length
          /\ \A j \in 1 .. Len(a0) : a0[j] = EngineState(params.seed, j)
    /\ (Configured /\ genCalls > 0) => gen = EngineState(params.seed, genCalls)

C23_GenerationStep ==
    genCalls' # genCalls =>
        /\ phase = "Generating"
        /\ pc = "action"
        /\ genCalls' = genCalls + 1
        /\ a'[genCalls'] = EngineState(params.seed, genCalls')
        /\ \A j \in 1 .. Len(a) : j # genCalls' => a'[j] = a[j]

C23_Generation == []C23_GenerationState /\ [][C23_GenerationStep]_vars

C23_Witness ==
    /\ phase = "Generating"
    /\ pc = "action"
    /\ Len(a) = 4
    /\ genCalls = 2
    /\ a[1] # a[2]
    /\ a[2] # 0

\* C24: a second run that completed with the length, seed, mode and
\* repetition count of the first, whatever its seed origin and display
\* flag, printed the same phase labels in the same order and ends with the
\* generated and the final workload, the two checksums and the diagnostics
\* of the first run.
C24_DisplayOnly ==
    (/\ run = 2
     /\ Completed
     /\ params.length = prev.params.length
     /\ params.seed = prev.params.seed
     /\ params.mode = prev.params.mode
     /\ params.inplace_reps = prev.params.inplace_reps) =>
        /\ PhaseSequence(out) = PhaseSequence(prev.out)
        /\ a0 = prev.a0
        /\ a = prev.a
        /\ s1 = prev.s1
        /\ s2 = prev.s2
        /\ Diagnostics(out) = Diagnostics(prev.out)

C24_Witness ==
    /\ run = 2
    /\ Completed
    /\ params.length = 3
    /\ params.mode = prev.params.mode
    /\ params.inplace_reps = prev.params.inplace_reps
    /\ params.seed_origin # prev.params.seed_origin
    /\ params.show_start_time # prev.params.show_start_time

Done == pc = "exited" /\ exitCode = "EXIT_SUCCESS" /\ OutIdx("full") # {}
Failed ==
    /\ pc = "exited"
    /\ exitCode = "EXIT_FAILURE"
    /\ out # <<>>
    /\ out[Len(out)] = Ev("stderr", "error", "not enough memory", 0)

\* C25: under fair scheduling of the main thread and of the sort workers,
\* every run that got its parameters from configure() eventually has exited,
\* either after the overall time was reported (EXIT_SUCCESS) or with the
\* "not enough memory" failure; a bench() call is abandoned only after a
\* std::bad_alloc was thrown, and in a run that has exited every call that
\* started has reported unless the run failed that way.
C25_NoAbandon ==
    /\ \A u \in LogIdx("unwound") : \E t \in LogIdx("threw") : t < u
    /\ (pc = "exited" /\ Configured) =>
          \/ \A b \in LogIdx("start") : LogOf("report", log[b].id) # {}
          \/ Failed /\ LogIdx("threw") # {}

C25_Terminates ==
    []C25_NoAbandon /\ (Configured ~> (Done \/ Failed))

C25_Witness ==
    /\ Done
    /\ Configured
    /\ params.mode = "par"
    /\ params.inplace_reps = 2
    /\ params.length = 4
    /\ ~IsSorted(a0)

\* C26: a step changes the workload only inside the action of Allocating,
\* Generating or Sorting; no step of the Hashing, Rehashing or Checking
\* phase (label, action, clock readings, reporter) and no reporter of any
\* phase changes it; the Parameters record is the same in every state
\* after configure() returned it.
C26_FrameStep ==
    /\ a' # a =>
          /\ phase \in {"Allocating", "Generating", "Sorting"}
          /\ pc \in {"action", "sorting"}
    /\ phase \in {"Hashing", "Rehashing", "Checking"} => a' = a
    /\ pc = "report" => a' = a
    /\ Configured => params' = params

C26_Frame == [][C26_FrameStep]_vars

C26_Witness ==
    /\ Completed
    /\ params.length = 4
    /\ a # a0
    /\ a0 # <<0, 0, 0, 0>>
    /\ params.mode = "par"

\* C27 as stated: a command line without a length, with a length that is
\* too big, with more than one mode flag or malformed ends in die() with
\* EXIT_FAILURE, without the header and without any bench() call.
C27_ConfigErrorsDie ==
    (/\ pc # "configure"
     /\ \/ vm.malformed
        \/ vm.length = None
        \/ vm.length >= SizeMax \div SizeofUnsigned
        \/ Count(vm.seq) + Count(vm.par) + Count(vm.par_unseq) > 1) =>
        /\ pc = "exited"
        /\ exitCode = "EXIT_FAILURE"
        /\ Len(out) = 1
        /\ out[1].kind = "error"
        /\ log = <<>>
        /\ ~Configured

\* C27, amended: such a command line never gets parameters, the header or a
\* bench() call; the process has exited after one message, which is the
\* error of die() with EXIT_FAILURE unless the command line parses and
\* holds --help; the parameters configure() returns are valid.
C27_ConfigErrorsPreventPipeline ==
    /\ (/\ pc # "configure"
        /\ \/ vm.malformed
           \/ vm.length = None
           \/ vm.length >= SizeMax \div SizeofUnsigned
           \/ Count(vm.seq) + Count(vm.par) + Count(vm.par_unseq) > 1) =>
          /\ pc = "exited"
          /\ Len(out) = 1
          /\ OutIdx("header") = {}
          /\ log = <<>>
          /\ ~Configured
          /\ (vm.malformed \/ ~vm.help) =>
                (exitCode = "EXIT_FAILURE" /\ out[1].kind = "error")
    /\ Configured =>
          /\ params.length \in 0 .. ((SizeMax \div SizeofUnsigned) - 1)
          /\ params.mode \in {"seq", "par", "par_unseq"}
          /\ params.inplace_reps >= 1
          /\ params.seed \in 0 .. UnsignedMax

C27_Witness ==
    /\ pc = "exited"
    /\ exitCode = "EXIT_FAILURE"
    /\ ~vm.help
    /\ ~vm.malformed
    /\ vm.length = 2
    /\ vm.seq
    /\ vm.par_unseq
    /\ out = <<Ev("stderr", "error", "at most one mode", 0)>>

\* C28: configure() returns inplace_reps 2 when --twice is given and 1
\* otherwise; a completed run started and reported the Sorting phase that
\* many times, so once or twice.
C28_RepetitionCount ==
    /\ Configured =>
          /\ params.inplace_reps \in {1, 2}
          /\ params.inplace_reps = 2 <=> vm.twice
    /\ Completed =>
          /\ Cardinality(LogIdxIn("report", {"Sorting"})) \in {1, 2}
          /\ Cardinality(LogIdxIn("report", {"Sorting"})) = (IF vm.twice THEN 2 ELSE 1)

C28_Witness ==
    /\ Completed
    /\ ~vm.twice
    /\ Cardinality(LogIdxIn("report", {"Sorting"})) = 1
    /\ params.length = 3

\* C29: a command line that parses and holds --help ends with the option
\* description printed, EXIT_SUCCESS, no parameters, no header and no
\* bench() call, whatever its length and mode flags.
C29_HelpTakesPrecedence ==
    (pc # "configure" /\ vm.help /\ ~vm.malformed) =>
        /\ pc = "exited"
        /\ exitCode = "EXIT_SUCCESS"
        /\ out = <<Ev("stdout", "help", "help", 0)>>
        /\ log = <<>>
        /\ ~Configured

C29_Witness ==
    /\ pc = "exited"
    /\ exitCode = "EXIT_SUCCESS"
    /\ vm.help
    /\ vm.length = None
    /\ vm.seq
    /\ vm.par
    /\ OutIdx("help") # {}

====
